---- MODULE Spec2Model ----
(***************************************************************************)
(* Solo-machine IBC transaction builder                                    *)
(* (solo-machine/src/transaction_builder.rs).                              *)
(*                                                                         *)
(* Every factory call (an async fn of TransactionBuilder) is a task whose  *)
(* position is task[t].pc and whose local variables are the other fields   *)
(* of task[t].  A task only changes state while an executor thread polls   *)
(* it (t \in running); it leaves the thread at every .await and when it    *)
(* returns.  The chain service and the query handler are the shared        *)
(* collaborators the builder borrows.                                      *)
(***************************************************************************)
EXTENDS Integers, Sequences, FiniteSets, TLC

VARIABLES
    chain_service,   \* ChainService: chain id -> Option<Chain>
    query_handler,   \* QueryHandler: the IBC objects stored locally
    task,            \* task id -> the call's number, position and local variables
    running,         \* the tasks an executor thread is polling right now
    workers,         \* number of executor threads that poll futures
    calls,           \* number of factory calls issued so far
    trace            \* history: proofs generated and increments done, in order

vars == <<chain_service, query_handler, task, running, workers, calls, trace>>

----------------------------------------------------------------------------
\* Bounds of the model.

\* Factory calls issued in one behaviour.
MaxCalls == 2

\* Executor threads of the parallel specification.
ParallelWorkers == 2

Tasks == {"t1", "t2"}

----------------------------------------------------------------------------
\* Option<T> and Result<T>.

None == <<>>
Some(x) == <<x>>
IsSome(o) == Len(o) = 1
IsNone(o) == Len(o) = 0
Unwrap(o) == o[1]

Ok(v) == [ok |-> TRUE, value |-> Some(v), error |-> ""]
Err(e) == [ok |-> FALSE, value |-> None, error |-> e]

----------------------------------------------------------------------------
\* Collaborators outside the builder: mnemonic (crate::crypto), protobuf
\* encoding (ibc::proto), ECDSA signing (k256).

TheMnemonic == "mnemonic"
TheMemo == ""

to_signing_key(mnemonic) == [signing_key_of |-> mnemonic]
to_public_key(mnemonic) == [public_key_of |-> mnemonic]
account_address(mnemonic, prefix) == [hrp |-> prefix, key |-> to_public_key(mnemonic)]

\* proto_encode: the bytes of a message; decoding gives the message back.
proto_encode(msg) == [proto |-> msg]
proto_decode(bytes) == bytes.proto

\* AnyConvert::to_any
to_any(url, msg) == [type_url |-> url, value |-> proto_encode(msg)]

\* Signer::sign: raw r||s signature of the bytes under the key.
ecdsa_sign(key, bytes) == [signer |-> key, signed |-> bytes]

----------------------------------------------------------------------------
\* The chains and IBC objects of the model.

RegisteredChainId == "test-1"
UnknownChainId == "unknown-9"
ChainIds == {RegisteredChainId, UnknownChainId}

InitialSequence == 1
ConsensusTimestamp == 1000

InitialChain ==
    [ id |-> RegisteredChainId,
      grpc_addr |-> "grpc",
      rpc_addr |-> "rpc",
      account_prefix |-> "cosmos",
      fee |-> [denom |-> "stake", amount |-> 1000, gas_limit |-> 300000],
      trust_level |-> [numer |-> 1, denom |-> 3],
      trusting_period |-> 14,
      max_clock_drift |-> 3,
      port_id |-> "transfer",
      diversifier |-> "solo",
      consensus_timestamp |-> ConsensusTimestamp,
      sequence |-> InitialSequence ]

Height(number, height) == [revision_number |-> number, revision_height |-> height]

\* Tendermint clients held by the query handler: one complete, one whose
\* consensus state at its latest height is missing, one without latest_height.
ClientFull == "07-tendermint-0"
ClientNoConsensus == "07-tendermint-1"
ClientNoHeight == "07-tendermint-2"
ClientAbsent == "07-tendermint-9"
ClientIds == {ClientFull, ClientNoConsensus, ClientNoHeight, ClientAbsent}

ConnectionPresent == "connection-0"
ConnectionAbsent == "connection-9"
ConnectionIds == {ConnectionPresent, ConnectionAbsent}

ChannelPresent == "channel-0"
ChannelAbsent == "channel-9"
ChannelIds == {ChannelPresent, ChannelAbsent}

SoloMachineClientId == "06-solomachine-0"
SoloMachineConnectionId == "connection-1"
SoloMachineChannelId == "channel-1"

TendermintClientState(latest) ==
    [ chain_id |-> RegisteredChainId, latest_height |-> latest ]

InitialQueryHandler ==
    [ client_states |->
        [ c \in ClientIds |->
            CASE c = ClientFull -> Some(TendermintClientState(Some(Height(1, 5))))
              [] c = ClientNoConsensus -> Some(TendermintClientState(Some(Height(1, 6))))
              [] c = ClientNoHeight -> Some(TendermintClientState(None))
              [] OTHER -> None ],
      consensus_states |->
        [ c \in ClientIds |->
            IF c = ClientFull
            THEN Some([height |-> Height(1, 5), state |-> [root |-> "apphash-5"]])
            ELSE None ],
      connections |->
        [ c \in ConnectionIds |->
            IF c = ConnectionPresent
            THEN Some([client_id |-> SoloMachineClientId, state |-> "TRYOPEN"])
            ELSE None ],
      channels |->
        [ c \in ChannelIds |->
            IF c = ChannelPresent
            THEN Some([port_id |-> "transfer", state |-> "TRYOPEN"])
            ELSE None ] ]

----------------------------------------------------------------------------
\* ChainService (crate::service::chain) and QueryHandler
\* (crate::handler::query_handler).

\* ChainService::get
chain_service_get(cs, chain_id) == cs[chain_id]

\* ChainService::increment_sequence: the store after a successful call; the
\* call returns the chain as stored afterwards.
increment_sequence(cs, chain_id) ==
    [cs EXCEPT ![chain_id] = Some([Unwrap(@) EXCEPT !.sequence = @ + 1])]

get_client_state(qh, client_id) == qh.client_states[client_id]

get_consensus_state(qh, client_id, height) ==
    LET stored == qh.consensus_states[client_id]
    IN  IF IsSome(stored) /\ Unwrap(stored).height = height
        THEN Some(Unwrap(stored).state)
        ELSE None

get_connection(qh, connection_id) == qh.connections[connection_id]

get_channel(qh, port_id, channel_id) ==
    LET stored == qh.channels[channel_id]
    IN  IF IsSome(stored) /\ Unwrap(stored).port_id = port_id THEN stored ELSE None

----------------------------------------------------------------------------
\* Proof signer.

sign(chain, mnemonic, sign_bytes) ==
    LET bytes == proto_encode(sign_bytes)
        signature == ecdsa_sign(to_signing_key(mnemonic), bytes)
        signature_data ==
            [single |-> [signature |-> signature, mode |-> "SIGN_MODE_UNSPECIFIED"]]
        timestamped_signature_data ==
            [ signature_data |-> proto_encode(signature_data),
              timestamp |-> chain.consensus_timestamp ]
    IN  proto_encode(timestamped_signature_data)

\* The SignBytes a proof signs, read back from the proof's bytes.
TimestampedOf(proof) == proto_decode(proof)
SignBytesOf(proof) ==
    proto_decode(proto_decode(TimestampedOf(proof).signature_data).single.signature.signed)

\* Mutant: the sequence is written into the timestamp field.
SignBytesStampsSequence(chain, data_type, data) ==
    [ sequence |-> chain.sequence,
      timestamp |-> chain.sequence,
      diversifier |-> chain.diversifier,
      data_type |-> data_type,
      data |-> proto_encode(data) ]

SignBytes(chain, data_type, data) ==
    [ sequence |-> chain.sequence,
      timestamp |-> chain.consensus_timestamp,
      diversifier |-> chain.diversifier,
      data_type |-> data_type,
      data |-> proto_encode(data) ]

get_channel_proof(chain, qh, mnemonic, port_id, channel_id) ==
    LET channel == get_channel(qh, port_id, channel_id)
        path == <<"ibc", "channelEnds", "ports", port_id, "channels", channel_id>>
    IN  IF IsNone(channel)
        THEN Err("channel not found")
        ELSE Ok(sign(chain, mnemonic,
                     SignBytes(chain, "ChannelState",
                               [path |-> path, channel |-> channel])))

get_connection_proof(chain, qh, mnemonic, connection_id) ==
    LET connection == get_connection(qh, connection_id)
        path == <<"ibc", "connections", connection_id>>
    IN  IF IsNone(connection)
        THEN Err("connection not found")
        ELSE Ok(sign(chain, mnemonic,
                     SignBytes(chain, "ConnectionState",
                               [path |-> path, connection |-> connection])))

get_client_proof(chain, qh, mnemonic, client_id) ==
    LET client_state == get_client_state(qh, client_id)
        path == <<"ibc", "clients", client_id, "clientState">>
    IN  IF IsNone(client_state)
        THEN Err("client not found")
        ELSE Ok(sign(chain, mnemonic,
                     SignBytes(chain, "ClientState",
                               [ path |-> path,
                                 client_state |->
                                    Some(to_any("tendermint.ClientState",
                                                Unwrap(client_state))) ])))

\* Mutant: the consensus-state path is built at the solo machine's own height.
get_consensus_proof_at_proof_height(chain, qh, mnemonic, client_id) ==
    LET client_state == get_client_state(qh, client_id)
    IN  IF IsNone(client_state)
        THEN Err("client not found")
        ELSE LET height == Unwrap(client_state).latest_height
             IN  IF IsNone(height)
                 THEN Err("client state does not contain latest height")
                 ELSE LET consensus_state ==
                              get_consensus_state(qh, client_id, Unwrap(height))
                          path == <<"ibc", "clients", client_id,
                                    "consensusStates", Height(0, chain.sequence)>>
                      IN  IF IsNone(consensus_state)
                          THEN Err("consensus state not found")
                          ELSE Ok(sign(chain, mnemonic,
                                       SignBytes(chain, "ConsensusState",
                                                 [ path |-> path,
                                                   consensus_state |->
                                                      Some(to_any("tendermint.ConsensusState",
                                                                  Unwrap(consensus_state))) ])))

get_consensus_proof(chain, qh, mnemonic, client_id) ==
    LET client_state == get_client_state(qh, client_id)
    IN  IF IsNone(client_state)
        THEN Err("client not found")
        ELSE LET height == Unwrap(client_state).latest_height
             IN  IF IsNone(height)
                 THEN Err("client state does not contain latest height")
                 ELSE LET consensus_state ==
                              get_consensus_state(qh, client_id, Unwrap(height))
                          path == <<"ibc", "clients", client_id,
                                    "consensusStates", Unwrap(height)>>
                      IN  IF IsNone(consensus_state)
                          THEN Err("consensus state not found")
                          ELSE Ok(sign(chain, mnemonic,
                                       SignBytes(chain, "ConsensusState",
                                                 [ path |-> path,
                                                   consensus_state |->
                                                      Some(to_any("tendermint.ConsensusState",
                                                                  Unwrap(consensus_state))) ])))

----------------------------------------------------------------------------
\* Tasks: one per factory call in flight.

Ops == { "create_solo_machine_client", "create_tendermint_client",
         "connection_open_init", "connection_open_ack",
         "channel_open_init", "channel_open_ack" }

IdleTask ==
    [ pc |-> "idle",
      call |-> 0,
      op |-> "",
      chain_id |-> "",
      tendermint_client_id |-> "",
      tendermint_connection_id |-> "",
      tendermint_channel_id |-> "",
      start_sequence |-> None,
      start_mark |-> 0,
      chain |-> None,
      tendermint_client_state |-> None,
      proof_try |-> None,
      proof_client |-> None,
      proof_consensus |-> None,
      message |-> None,
      tx_body_bytes |-> None,
      account |-> None,
      unbonding_period |-> None,
      latest_height |-> None,
      result |-> None ]

\* A call that returned or was dropped: its local variables are gone; what the
\* caller passed, the sequence the call first read (start_sequence) and the
\* length of the history at that moment (start_mark) are kept for reference.
Dropped(tk) ==
    [IdleTask EXCEPT !.call = tk.call,
                     !.op = tk.op,
                     !.chain_id = tk.chain_id,
                     !.tendermint_client_id = tk.tendermint_client_id,
                     !.tendermint_connection_id = tk.tendermint_connection_id,
                     !.tendermint_channel_id = tk.tendermint_channel_id,
                     !.start_sequence = tk.start_sequence,
                     !.start_mark = tk.start_mark]

InFlight(t) == task[t].pc \notin {"idle", "done", "cancelled"}

\* The stored chain of the registered chain id.
Stored == Unwrap(chain_service[RegisteredChainId])

InitState(w) ==
    /\ chain_service =
         [c \in ChainIds |-> IF c = RegisteredChainId THEN Some(InitialChain) ELSE None]
    /\ query_handler = InitialQueryHandler
    /\ task = [t \in Tasks |-> IdleTask]
    /\ running = {}
    /\ workers = w
    /\ calls = 0
    /\ trace = <<>>

\* One executor thread: cooperative scheduling, a task keeps the thread from
\* one suspension point to the next.
Init == InitState(1)

\* A multi-threaded executor polls several tasks at once.
InitParallel == InitState(ParallelWorkers)

\* The caller creates a builder (TransactionBuilder::new) and the future of one
\* factory call, on a thread no task occupies; nothing of the call runs before
\* it is polled.  Task ids are interchangeable: the first call of a behaviour
\* takes t1.
Issue(t) ==
    /\ ~InFlight(t)
    /\ Cardinality(running) < workers
    /\ calls < MaxCalls
    /\ t = "t2" => task["t1"].pc # "idle"
    /\ \E op \in Ops, chain_id \in ChainIds, client \in ClientIds,
          connection \in ConnectionIds, channel \in ChannelIds :
          /\ (op # "connection_open_ack" \/ chain_id = UnknownChainId) =>
                client = ClientFull /\ connection = ConnectionPresent
          /\ (op # "channel_open_ack" \/ chain_id = UnknownChainId) =>
                channel = ChannelPresent
          /\ task' = [task EXCEPT ![t] =
                        [IdleTask EXCEPT !.pc = "get_chain",
                                         !.call = calls + 1,
                                         !.op = op,
                                         !.chain_id = chain_id,
                                         !.tendermint_client_id = client,
                                         !.tendermint_connection_id = connection,
                                         !.tendermint_channel_id = channel]]
    /\ calls' = calls + 1
    /\ UNCHANGED <<chain_service, query_handler, running, workers, trace>>

\* An executor thread polls a task: one not polled yet, or one whose awaited
\* network request has completed.
Poll(t) ==
    /\ InFlight(t)
    /\ t \notin running
    /\ Cardinality(running) < workers
    /\ running' = running \cup {t}
    /\ UNCHANGED <<chain_service, query_handler, task, workers, calls, trace>>

\* Mutant: dropping the future puts the sequence back to what the call read.
CancelRollsBack(t) ==
    /\ InFlight(t)
    /\ t \notin running
    /\ task' = [task EXCEPT ![t] =
                  [IdleTask EXCEPT !.pc = "cancelled",
                                   !.call = task[t].call,
                                   !.op = task[t].op,
                                   !.chain_id = task[t].chain_id,
                                   !.start_sequence = task[t].start_sequence,
                                   !.start_mark = task[t].start_mark]]
    /\ chain_service' =
         IF IsSome(task[t].start_sequence)
         THEN [chain_service EXCEPT ![task[t].chain_id] =
                  Some([Unwrap(@) EXCEPT !.sequence = Unwrap(task[t].start_sequence)])]
         ELSE chain_service
    /\ UNCHANGED <<query_handler, running, workers, calls, trace>>

\* The caller drops the future of a call suspended at an .await (or not yet
\* polled): the call never resumes and returns nothing.
Cancel(t) ==
    /\ InFlight(t)
    /\ t \notin running
    /\ task' = [task EXCEPT ![t] =
                  [IdleTask EXCEPT !.pc = "cancelled",
                                   !.call = task[t].call,
                                   !.op = task[t].op,
                                   !.chain_id = task[t].chain_id,
                                   !.start_sequence = task[t].start_sequence,
                                   !.start_mark = task[t].start_mark]]
    /\ UNCHANGED <<chain_service, query_handler, running, workers, calls, trace>>

\* Building blocks of the steps below.
At(t, pc) == t \in running /\ task[t].pc = pc

Goto(t, pc, changes) ==
    task' = [task EXCEPT ![t] = [changes EXCEPT !.pc = pc]]

\* The call returns `res` (an early return by `?`, or the final value).
Return(t, res) ==
    /\ task' = [task EXCEPT ![t] = [Dropped(task[t]) EXCEPT !.pc = "done",
                                                            !.result = Some(res)]]
    /\ running' = running \ {t}

\* The call reaches an .await on a network request and leaves the thread.
Await(t, pc, changes) ==
    /\ Goto(t, pc, changes)
    /\ running' = running \ {t}

\* let chain = self.chain_service.get(&self.chain_id)?.ok_or_else(...)?
AfterGetChain(op) ==
    CASE op = "create_solo_machine_client" -> "solo_message"
      [] op = "create_tendermint_client" -> "staking_connect"
      [] op = "connection_open_init" -> "connection_init_message"
      [] op = "connection_open_ack" -> "ack_client_state"
      [] op = "channel_open_init" -> "channel_init_message"
      [] OTHER -> "channel_proof_try"

GetChain(t) ==
    /\ At(t, "get_chain")
    /\ \E fault \in BOOLEAN :
          LET chain == chain_service_get(chain_service, task[t].chain_id)
              found == [task[t] EXCEPT !.chain = chain,
                                       !.start_sequence = Some(Unwrap(chain).sequence),
                                       !.start_mark = Len(trace)]
          IN  CASE fault -> Return(t, Err("chain service failure"))
                [] ~fault /\ IsNone(chain) -> Return(t, Err("chain not found"))
                [] ~fault /\ IsSome(chain) /\ task[t].op = "create_tendermint_client" ->
                       Await(t, "staking_connect", found)
                [] OTHER ->
                       /\ Goto(t, AfterGetChain(task[t].op), found)
                       /\ UNCHANGED running
    /\ UNCHANGED <<chain_service, query_handler, workers, calls, trace>>

----------------------------------------------------------------------------
\* History of the proofs generated and the increments done.

ProofEvent(t, proof) ==
    [ kind |-> "proof",
      call |-> task[t].call,
      chain_id |-> task[t].chain_id,
      sequence |-> SignBytesOf(proof).sequence,
      data_type |-> SignBytesOf(proof).data_type ]

IncrementEvent(t, chain) ==
    [ kind |-> "increment",
      call |-> task[t].call,
      chain_id |-> task[t].chain_id,
      sequence |-> chain.sequence,
      data_type |-> "" ]

\* The error of a lookup of the query handler that itself fails.
QueryHandlerFailure == "query handler failure"

\* The ways a proof factory fails besides a missing object: a lookup of the
\* query handler returns an error (`?` on get_channel, get_connection,
\* get_client_state, get_consensus_state), whatever the handler holds, or the
\* encoding or the signing of the object found fails.
ProofFaults == {"none", "lookup", "signing"}

\* A proof factory was called: it fails (a failing lookup, object not found,
\* or an encoding or signing failure) and the call returns, or the call goes
\* on to `next` with the proof kept in the task record `with_proof`.
ProofStep(t, proof, next, with_proof) ==
    /\ \E fault \in ProofFaults :
          LET outcome == CASE fault = "lookup" -> Err(QueryHandlerFailure)
                           [] fault = "signing" /\ proof.ok ->
                                Err("encoding or signing failure")
                           [] OTHER -> proof
          IN  IF outcome.ok
              THEN /\ Goto(t, next, with_proof)
                   /\ trace' = Append(trace, ProofEvent(t, Unwrap(proof.value)))
                   /\ UNCHANGED running
              ELSE /\ Return(t, outcome)
                   /\ UNCHANGED trace
    /\ UNCHANGED <<chain_service, query_handler, workers, calls>>

\* chain = self.chain_service.increment_sequence(&self.chain_id)?
IncrementStep(t, next) ==
    /\ \E fault \in BOOLEAN :
          IF fault
          THEN /\ Return(t, Err("chain service failure"))
               /\ UNCHANGED <<chain_service, trace>>
          ELSE /\ chain_service' = increment_sequence(chain_service, task[t].chain_id)
               /\ Goto(t, next, [task[t] EXCEPT !.chain = chain_service'[task[t].chain_id]])
               /\ trace' = Append(trace,
                                  IncrementEvent(t, Unwrap(chain_service'[task[t].chain_id])))
               /\ UNCHANGED running
    /\ UNCHANGED <<query_handler, workers, calls>>

\* A payload message was built: `?` on to_any or account_address returns, or
\* the call enters build() with the message.
MessageStep(t, message) ==
    /\ \E fault \in BOOLEAN :
          IF fault
          THEN Return(t, Err("encoding or key failure"))
          ELSE /\ Goto(t, "build_tx_body", [task[t] EXCEPT !.message = Some(message)])
               /\ UNCHANGED running
    /\ UNCHANGED <<chain_service, query_handler, workers, calls, trace>>

ConnectionVersion ==
    [identifier |-> "1", features |-> <<"ORDER_ORDERED", "ORDER_UNORDERED">>]

----------------------------------------------------------------------------
\* msg_create_solo_machine_client

\* Mutant: sequence and frozen_sequence are swapped.
MsgCreateSoloMachineClientSwapsSequences(chain, mnemonic) ==
    LET consensus_state ==
            [ public_key |-> Some(to_any("secp256k1.PubKey", to_public_key(mnemonic))),
              diversifier |-> chain.diversifier,
              timestamp |-> chain.consensus_timestamp ]
        client_state ==
            [ sequence |-> 0,
              frozen_sequence |-> chain.sequence,
              consensus_state |-> Some(consensus_state),
              allow_update_after_proposal |-> TRUE ]
    IN  [ type_url |-> "MsgCreateClient",
          client_state |-> Some(to_any("solomachine.ClientState", client_state)),
          consensus_state |-> Some(to_any("solomachine.ConsensusState", consensus_state)),
          signer |-> account_address(mnemonic, chain.account_prefix) ]

MsgCreateSoloMachineClient(chain, mnemonic) ==
    LET consensus_state ==
            [ public_key |-> Some(to_any("secp256k1.PubKey", to_public_key(mnemonic))),
              diversifier |-> chain.diversifier,
              timestamp |-> chain.consensus_timestamp ]
        client_state ==
            [ sequence |-> chain.sequence,
              frozen_sequence |-> 0,
              consensus_state |-> Some(consensus_state),
              allow_update_after_proposal |-> TRUE ]
    IN  [ type_url |-> "MsgCreateClient",
          client_state |-> Some(to_any("solomachine.ClientState", client_state)),
          consensus_state |-> Some(to_any("solomachine.ConsensusState", consensus_state)),
          signer |-> account_address(mnemonic, chain.account_prefix) ]

CreateSoloMachineClientMessage(t) ==
    /\ At(t, "solo_message")
    /\ MessageStep(t, MsgCreateSoloMachineClient(Unwrap(task[t].chain), TheMnemonic))

----------------------------------------------------------------------------
\* msg_connection_open_init

MsgConnectionOpenInit(chain, mnemonic, solo_machine_client_id, tendermint_client_id) ==
    [ type_url |-> "MsgConnectionOpenInit",
      client_id |-> solo_machine_client_id,
      counterparty |-> Some([ client_id |-> tendermint_client_id,
                              connection_id |-> "",
                              prefix |-> Some([key_prefix |-> "ibc"]) ]),
      version |-> Some(ConnectionVersion),
      delay_period |-> 0,
      signer |-> account_address(mnemonic, chain.account_prefix) ]

ConnectionOpenInitMessage(t) ==
    /\ At(t, "connection_init_message")
    /\ MessageStep(t, MsgConnectionOpenInit(Unwrap(task[t].chain), TheMnemonic,
                                             SoloMachineClientId,
                                             task[t].tendermint_client_id))

----------------------------------------------------------------------------
\* msg_connection_open_ack

\* Mutant: the client state is taken out of the query handler instead of read.
AckTakeClientState(t) ==
    /\ At(t, "ack_client_state")
    /\ \E fault \in BOOLEAN :
         LET client_state == get_client_state(query_handler, task[t].tendermint_client_id)
         IN  CASE fault -> /\ Return(t, Err(QueryHandlerFailure))
                           /\ UNCHANGED query_handler
               [] ~fault /\ IsNone(client_state) ->
                      /\ Return(t, Err("client not found"))
                      /\ UNCHANGED query_handler
               [] OTHER ->
                      /\ Goto(t, "ack_proof_try",
                              [task[t] EXCEPT !.tendermint_client_state = client_state])
                      /\ query_handler' =
                           [query_handler EXCEPT
                               !.client_states[task[t].tendermint_client_id] = None]
                      /\ UNCHANGED running
    /\ UNCHANGED <<chain_service, workers, calls, trace>>

\* Mutant: the latest height of the client state is required as soon as the
\* client state is read.
AckGetClientStateRequiresHeight(t) ==
    /\ At(t, "ack_client_state")
    /\ \E fault \in BOOLEAN :
         LET client_state == get_client_state(query_handler, task[t].tendermint_client_id)
         IN  CASE fault -> Return(t, Err(QueryHandlerFailure))
               [] ~fault /\ IsNone(client_state) -> Return(t, Err("client not found"))
               [] ~fault /\ IsSome(client_state)
                         /\ IsNone(Unwrap(client_state).latest_height) ->
                      Return(t, Err("client state does not contain latest height"))
               [] OTHER ->
                      /\ Goto(t, "ack_proof_try",
                              [task[t] EXCEPT !.tendermint_client_state = client_state])
                      /\ UNCHANGED running
    /\ UNCHANGED <<chain_service, query_handler, workers, calls, trace>>

\* let tendermint_client_state = query_handler.get_client_state(..)?.ok_or_else(..)?
\* The first `?` returns the lookup's own error, whatever the handler holds;
\* the second the not-found error.
AckGetClientState(t) ==
    /\ At(t, "ack_client_state")
    /\ \E fault \in BOOLEAN :
         LET client_state == get_client_state(query_handler, task[t].tendermint_client_id)
         IN  CASE fault -> Return(t, Err(QueryHandlerFailure))
               [] ~fault /\ IsNone(client_state) -> Return(t, Err("client not found"))
               [] OTHER ->
                      /\ Goto(t, "ack_proof_try",
                              [task[t] EXCEPT !.tendermint_client_state = client_state])
                      /\ UNCHANGED running
    /\ UNCHANGED <<chain_service, query_handler, workers, calls, trace>>

\* Mutant: the sequence is advanced before the connection lookup is known to
\* have succeeded.
AckProofTryIncrementsFirst(t) ==
    /\ At(t, "ack_proof_try")
    /\ LET proof == get_connection_proof(Unwrap(task[t].chain), query_handler,
                                         TheMnemonic, task[t].tendermint_connection_id)
       IN  IF proof.ok
           THEN /\ Goto(t, "ack_increment_1", [task[t] EXCEPT !.proof_try = proof.value])
                /\ trace' = Append(trace, ProofEvent(t, Unwrap(proof.value)))
                /\ UNCHANGED <<chain_service, running>>
           ELSE /\ Return(t, proof)
                /\ chain_service' = increment_sequence(chain_service, task[t].chain_id)
                /\ trace' = Append(trace,
                                   IncrementEvent(t, Unwrap(chain_service'[task[t].chain_id])))
    /\ UNCHANGED <<query_handler, workers, calls>>

AckProofTry(t) ==
    /\ At(t, "ack_proof_try")
    /\ LET proof == get_connection_proof(Unwrap(task[t].chain), query_handler,
                                         TheMnemonic, task[t].tendermint_connection_id)
       IN  ProofStep(t, proof, "ack_increment_1",
                     [task[t] EXCEPT !.proof_try = proof.value])

\* Mutant: the increment after proof_try is forgotten.
AckForgetIncrementAfterTry(t) ==
    /\ At(t, "ack_increment_1")
    /\ Goto(t, "ack_proof_client", task[t])
    /\ UNCHANGED <<chain_service, query_handler, running, workers, calls, trace>>

\* Mutant: the store is incremented but the call keeps its old snapshot.
AckIncrementAfterTryKeepsSnapshot(t) ==
    /\ At(t, "ack_increment_1")
    /\ chain_service' = increment_sequence(chain_service, task[t].chain_id)
    /\ Goto(t, "ack_proof_client", task[t])
    /\ trace' = Append(trace, IncrementEvent(t, Unwrap(chain_service'[task[t].chain_id])))
    /\ UNCHANGED <<query_handler, running, workers, calls>>

AckIncrementAfterTry(t) ==
    /\ At(t, "ack_increment_1")
    /\ IncrementStep(t, "ack_proof_client")

AckProofClient(t) ==
    /\ At(t, "ack_proof_client")
    /\ LET proof == get_client_proof(Unwrap(task[t].chain), query_handler,
                                     TheMnemonic, task[t].tendermint_client_id)
       IN  ProofStep(t, proof, "ack_increment_2",
                     [task[t] EXCEPT !.proof_client = proof.value])

\* Mutant: the call is suspended after its second increment.
AckIncrementAfterClientSuspends(t) ==
    /\ At(t, "ack_increment_2")
    /\ chain_service' = increment_sequence(chain_service, task[t].chain_id)
    /\ Await(t, "ack_proof_consensus",
             [task[t] EXCEPT !.chain = chain_service'[task[t].chain_id]])
    /\ trace' = Append(trace, IncrementEvent(t, Unwrap(chain_service'[task[t].chain_id])))
    /\ UNCHANGED <<query_handler, workers, calls>>

AckIncrementAfterClient(t) ==
    /\ At(t, "ack_increment_2")
    /\ IncrementStep(t, "ack_proof_consensus")

AckProofConsensus(t) ==
    /\ At(t, "ack_proof_consensus")
    /\ LET proof == get_consensus_proof(Unwrap(task[t].chain), query_handler,
                                        TheMnemonic, task[t].tendermint_client_id)
       IN  ProofStep(t, proof, "ack_increment_3",
                     [task[t] EXCEPT !.proof_consensus = proof.value])

AckIncrementAfterConsensus(t) ==
    /\ At(t, "ack_increment_3")
    /\ IncrementStep(t, "ack_message")

\* Mutant: proof_height is the sequence the last proof signed, not the final one.
MsgConnectionOpenAckStaleHeight(chain, mnemonic, tendermint_client_state, proof_try, proof_client, proof_consensus, solo_machine_connection_id, tendermint_connection_id) ==
    [ type_url |-> "MsgConnectionOpenAck",
      connection_id |-> solo_machine_connection_id,
      counterparty_connection_id |-> tendermint_connection_id,
      version |-> Some(ConnectionVersion),
      client_state |-> Some(to_any("tendermint.ClientState", tendermint_client_state)),
      proof_height |-> Some(Height(0, SignBytesOf(proof_consensus).sequence)),
      proof_try |-> proof_try,
      proof_client |-> proof_client,
      proof_consensus |-> proof_consensus,
      consensus_height |-> tendermint_client_state.latest_height,
      signer |-> account_address(mnemonic, chain.account_prefix) ]

MsgConnectionOpenAck(chain, mnemonic, tendermint_client_state, proof_try, proof_client, proof_consensus, solo_machine_connection_id, tendermint_connection_id) ==
    [ type_url |-> "MsgConnectionOpenAck",
      connection_id |-> solo_machine_connection_id,
      counterparty_connection_id |-> tendermint_connection_id,
      version |-> Some(ConnectionVersion),
      client_state |-> Some(to_any("tendermint.ClientState", tendermint_client_state)),
      proof_height |-> Some(Height(0, chain.sequence)),
      proof_try |-> proof_try,
      proof_client |-> proof_client,
      proof_consensus |-> proof_consensus,
      consensus_height |-> tendermint_client_state.latest_height,
      signer |-> account_address(mnemonic, chain.account_prefix) ]

ConnectionOpenAckMessage(t) ==
    /\ At(t, "ack_message")
    /\ MessageStep(t, MsgConnectionOpenAck(Unwrap(task[t].chain), TheMnemonic,
                                            Unwrap(task[t].tendermint_client_state),
                                            Unwrap(task[t].proof_try),
                                            Unwrap(task[t].proof_client),
                                            Unwrap(task[t].proof_consensus),
                                            SoloMachineConnectionId,
                                            task[t].tendermint_connection_id))

----------------------------------------------------------------------------
\* msg_channel_open_init

MsgChannelOpenInit(chain, mnemonic, solo_machine_connection_id) ==
    [ type_url |-> "MsgChannelOpenInit",
      port_id |-> chain.port_id,
      channel |-> Some([ state |-> "INIT",
                         ordering |-> "UNORDERED",
                         counterparty |-> Some([port_id |-> chain.port_id,
                                                channel_id |-> ""]),
                         connection_hops |-> <<solo_machine_connection_id>>,
                         version |-> "ics20-1" ]),
      signer |-> account_address(mnemonic, chain.account_prefix) ]

ChannelOpenInitMessage(t) ==
    /\ At(t, "channel_init_message")
    /\ MessageStep(t, MsgChannelOpenInit(Unwrap(task[t].chain), TheMnemonic,
                                          SoloMachineConnectionId))

----------------------------------------------------------------------------
\* msg_channel_open_ack

ChannelProofTry(t) ==
    /\ At(t, "channel_proof_try")
    /\ LET chain == Unwrap(task[t].chain)
           proof == get_channel_proof(chain, query_handler, TheMnemonic,
                                      chain.port_id, task[t].tendermint_channel_id)
       IN  ProofStep(t, proof, "channel_increment",
                     [task[t] EXCEPT !.proof_try = proof.value])

\* Mutant: the store is incremented but the call keeps its old snapshot.
ChannelIncrementKeepsSnapshot(t) ==
    /\ At(t, "channel_increment")
    /\ chain_service' = increment_sequence(chain_service, task[t].chain_id)
    /\ Goto(t, "channel_ack_message", task[t])
    /\ trace' = Append(trace, IncrementEvent(t, Unwrap(chain_service'[task[t].chain_id])))
    /\ UNCHANGED <<query_handler, running, workers, calls>>

\* Mutant: a failed increment is ignored and the call goes on with the
\* snapshot it holds.
ChannelIncrementIgnoresFailure(t) ==
    /\ At(t, "channel_increment")
    /\ \E fault \in BOOLEAN :
          IF fault
          THEN /\ Goto(t, "channel_ack_message", task[t])
               /\ UNCHANGED <<chain_service, trace>>
          ELSE /\ chain_service' = increment_sequence(chain_service, task[t].chain_id)
               /\ Goto(t, "channel_ack_message",
                       [task[t] EXCEPT !.chain = chain_service'[task[t].chain_id]])
               /\ trace' = Append(trace,
                                  IncrementEvent(t, Unwrap(chain_service'[task[t].chain_id])))
    /\ UNCHANGED <<query_handler, running, workers, calls>>

ChannelIncrement(t) ==
    /\ At(t, "channel_increment")
    /\ IncrementStep(t, "channel_ack_message")

MsgChannelOpenAck(chain, mnemonic, proof_try, solo_machine_channel_id, tendermint_channel_id) ==
    [ type_url |-> "MsgChannelOpenAck",
      port_id |-> chain.port_id,
      channel_id |-> solo_machine_channel_id,
      counterparty_channel_id |-> tendermint_channel_id,
      counterparty_version |-> "ics20-1",
      proof_height |-> Some(Height(0, chain.sequence)),
      proof_try |-> proof_try,
      signer |-> account_address(mnemonic, chain.account_prefix) ]

ChannelOpenAckMessage(t) ==
    /\ At(t, "channel_ack_message")
    /\ MessageStep(t, MsgChannelOpenAck(Unwrap(task[t].chain), TheMnemonic,
                                         Unwrap(task[t].proof_try),
                                         SoloMachineChannelId,
                                         task[t].tendermint_channel_id))

----------------------------------------------------------------------------
\* Replies of the remote chain to the request a task awaited.

BaseAccounts == { [account_number |-> 7, sequence |-> 0],
                  [account_number |-> 8, sequence |-> 1] }

Garbage == [garbage |-> TRUE]
Decodes(bytes) == "proto" \in DOMAIN bytes

Reply(ok, value) == [ok |-> ok, value |-> value]

\* What the remote chain can answer to the request awaited at `pc`.
Replies(pc) ==
    CASE pc = "auth_account" ->
            { Reply(FALSE, None), Reply(TRUE, None),
              Reply(TRUE, Some([value |-> Garbage])) }
            \cup { Reply(TRUE, Some([value |-> proto_encode(a)])) : a \in BaseAccounts }
      [] pc = "staking_params" ->
            { Reply(FALSE, None), Reply(TRUE, None),
              Reply(TRUE, Some([unbonding_time |-> None])),
              Reply(TRUE, Some([unbonding_time |-> Some(21)])) }
      [] pc = "rpc_status" ->
            { Reply(FALSE, None) }
            \cup { Reply(TRUE, Some([ catching_up |-> c, network |-> n,
                                      latest_block_height |-> 7 ])) :
                     c \in BOOLEAN, n \in {RegisteredChainId, "not a chain id"} }
      [] pc = "rpc_block" ->
            { Reply(FALSE, None),
              Reply(TRUE, Some([header |-> [height |-> 7, app_hash |-> "apphash-7"]])) }
      [] OTHER -> { Reply(FALSE, None), Reply(TRUE, None) }

----------------------------------------------------------------------------
\* build, and what it calls.

build_tx_body(messages, memo) ==
    [ messages |-> [i \in DOMAIN messages |-> to_any(messages[i].type_url, messages[i])],
      memo |-> memo,
      timeout_height |-> 0,
      extension_options |-> <<>>,
      non_critical_extension_options |-> <<>> ]

build_auth_info(chain, mnemonic, account_sequence) ==
    [ signer_infos |->
        << [ public_key |-> Some(to_any("secp256k1.PubKey", to_public_key(mnemonic))),
             mode_info |-> Some([single |-> [mode |-> 1]]),
             sequence |-> account_sequence ] >>,
      fee |-> Some([ amount |-> << [denom |-> chain.fee.denom,
                                    amount |-> ToString(chain.fee.amount)] >>,
                     gas_limit |-> chain.fee.gas_limit,
                     payer |-> "",
                     granter |-> "" ]) ]

SignDoc(body_bytes, auth_info_bytes, chain_id, account_number) ==
    [ body_bytes |-> body_bytes,
      auth_info_bytes |-> auth_info_bytes,
      chain_id |-> chain_id,
      account_number |-> account_number ]

build_signature(mnemonic, body_bytes, auth_info_bytes, chain_id, account_number) ==
    ecdsa_sign(to_signing_key(mnemonic),
               proto_encode(SignDoc(body_bytes, auth_info_bytes, chain_id, account_number)))

\* Mutant: the account sequence is signed in the place of the account number.
TxRawSignsAccountSequence(chain, mnemonic, tx_body_bytes, account) ==
    LET auth_info_bytes == proto_encode(build_auth_info(chain, mnemonic, account.sequence))
    IN  [ body_bytes |-> tx_body_bytes,
          auth_info_bytes |-> auth_info_bytes,
          signatures |-> << build_signature(mnemonic, tx_body_bytes, auth_info_bytes,
                                            chain.id, account.sequence) >> ]

TxRaw(chain, mnemonic, tx_body_bytes, account) ==
    LET auth_info_bytes == proto_encode(build_auth_info(chain, mnemonic, account.sequence))
    IN  [ body_bytes |-> tx_body_bytes,
          auth_info_bytes |-> auth_info_bytes,
          signatures |-> << build_signature(mnemonic, tx_body_bytes, auth_info_bytes,
                                            chain.id, account.account_number) >> ]

\* Mutant: build advances the sequence.
BuildTxBodyIncrements(t) ==
    /\ At(t, "build_tx_body")
    /\ chain_service' = increment_sequence(chain_service, task[t].chain_id)
    /\ Await(t, "auth_connect",
             [task[t] EXCEPT !.tx_body_bytes =
                 Some(proto_encode(build_tx_body(<<Unwrap(task[t].message)>>, TheMemo)))])
    /\ UNCHANGED <<query_handler, workers, calls, trace>>

\* Mutant: the memo carries the number of the call.
BuildTxBodyStampsCall(t) ==
    /\ At(t, "build_tx_body")
    /\ \E fault \in BOOLEAN :
          IF fault
          THEN Return(t, Err("unable to build transaction body"))
          ELSE Await(t, "auth_connect",
                     [task[t] EXCEPT !.tx_body_bytes =
                         Some(proto_encode(build_tx_body(<<Unwrap(task[t].message)>>,
                                                         ToString(task[t].call))))])
    /\ UNCHANGED <<chain_service, query_handler, workers, calls, trace>>

\* build: the transaction body, then get_account_details connects.
BuildTxBody(t) ==
    /\ At(t, "build_tx_body")
    /\ \E fault \in BOOLEAN :
          IF fault
          THEN Return(t, Err("unable to build transaction body"))
          ELSE Await(t, "auth_connect",
                     [task[t] EXCEPT !.tx_body_bytes =
                         Some(proto_encode(build_tx_body(<<Unwrap(task[t].message)>>,
                                                         TheMemo)))])
    /\ UNCHANGED <<chain_service, query_handler, workers, calls, trace>>

\* get_account_details: connected (or not); the account query is sent.
AuthConnected(t) ==
    /\ At(t, "auth_connect")
    /\ \E reply \in Replies("auth_connect"), fault \in BOOLEAN :
          CASE ~reply.ok -> Return(t, Err("unable to connect to grpc query client"))
            [] reply.ok /\ fault -> Return(t, Err("encoding or key failure"))
            [] OTHER -> Await(t, "auth_account", task[t])
    /\ UNCHANGED <<chain_service, query_handler, workers, calls, trace>>

\* Mutant: a failed account lookup is swallowed and a default account is used.
AccountReceivedSwallowsFailure(t) ==
    /\ At(t, "auth_account")
    /\ \E reply \in Replies("auth_account") :
          LET found == reply.ok /\ IsSome(reply.value) /\ Decodes(Unwrap(reply.value).value)
              account == IF found
                         THEN proto_decode(Unwrap(reply.value).value)
                         ELSE [account_number |-> 0, sequence |-> 0]
          IN  Goto(t, "assemble", [task[t] EXCEPT !.account = Some(account)])
    /\ UNCHANGED <<chain_service, query_handler, running, workers, calls, trace>>

\* Mutant: a failed account lookup puts the sequence back to what the call read.
AccountReceivedRollsBack(t) ==
    /\ At(t, "auth_account")
    /\ \E reply \in Replies("auth_account") :
          LET found == reply.ok /\ IsSome(reply.value) /\ Decodes(Unwrap(reply.value).value)
          IN  IF found
              THEN /\ Goto(t, "assemble",
                           [task[t] EXCEPT !.account =
                               Some(proto_decode(Unwrap(reply.value).value))])
                   /\ UNCHANGED <<chain_service, running>>
              ELSE /\ Return(t, Err("account query failed"))
                   /\ chain_service' =
                        [chain_service EXCEPT ![task[t].chain_id] =
                            Some([Unwrap(@) EXCEPT !.sequence =
                                     Unwrap(task[t].start_sequence)])]
    /\ UNCHANGED <<query_handler, workers, calls, trace>>

\* get_account_details: the reply to the account query.
AccountReceived(t) ==
    /\ At(t, "auth_account")
    /\ \E reply \in Replies("auth_account") :
          CASE ~reply.ok -> Return(t, Err("account query failed"))
            [] reply.ok /\ IsNone(reply.value) -> Return(t, Err("unable to find account"))
            [] reply.ok /\ IsSome(reply.value) /\ ~Decodes(Unwrap(reply.value).value) ->
                   Return(t, Err("account does not decode"))
            [] OTHER ->
                   /\ Goto(t, "assemble",
                           [task[t] EXCEPT !.account =
                               Some(proto_decode(Unwrap(reply.value).value))])
                   /\ UNCHANGED running
    /\ UNCHANGED <<chain_service, query_handler, workers, calls, trace>>

\* build: auth info, signature, TxRaw.
AssembleTxRaw(t) ==
    /\ At(t, "assemble")
    /\ \E fault \in BOOLEAN :
          IF fault
          THEN Return(t, Err("unable to sign transaction"))
          ELSE Return(t, Ok(TxRaw(Unwrap(task[t].chain), TheMnemonic,
                                  Unwrap(task[t].tx_body_bytes),
                                  Unwrap(task[t].account))))
    /\ UNCHANGED <<chain_service, query_handler, workers, calls, trace>>

----------------------------------------------------------------------------
\* msg_create_tendermint_client

\* get_unbonding_period: connected (or not); the staking params query is sent.
StakingConnected(t) ==
    /\ At(t, "staking_connect")
    /\ \E reply \in Replies("staking_connect") :
          IF reply.ok
          THEN Await(t, "staking_params", task[t])
          ELSE Return(t, Err("unable to connect to grpc query client"))
    /\ UNCHANGED <<chain_service, query_handler, workers, calls, trace>>

\* get_unbonding_period: the reply; then get_latest_height asks for the status.
StakingParamsReceived(t) ==
    /\ At(t, "staking_params")
    /\ \E reply \in Replies("staking_params") :
          CASE ~reply.ok -> Return(t, Err("staking params query failed"))
            [] reply.ok /\ IsNone(reply.value) -> Return(t, Err("staking params are empty"))
            [] reply.ok /\ IsSome(reply.value)
                 /\ IsNone(Unwrap(reply.value).unbonding_time) ->
                   Return(t, Err("missing unbonding period in staking params"))
            [] OTHER ->
                   Await(t, "rpc_status",
                         [task[t] EXCEPT !.unbonding_period =
                             Unwrap(reply.value).unbonding_time])
    /\ UNCHANGED <<chain_service, query_handler, workers, calls, trace>>

\* ChainId::version of a network name: its numeric revision suffix.
ParsesAsChainId(network) == network \in ChainIds
ChainIdVersion(network) == IF network = RegisteredChainId THEN 1 ELSE 9

\* Mutant: the height is taken from a node that is still catching up.
get_latest_height_ignores_catching_up(chain, reply) ==
    IF ~reply.ok
    THEN Err("status query failed")
    ELSE LET response == Unwrap(reply.value)
         IN  IF ~ParsesAsChainId(response.network)
             THEN Err("invalid chain id")
             ELSE Ok(Height(ChainIdVersion(response.network),
                            response.latest_block_height))

\* get_latest_height, given the reply to rpc_client.status().
get_latest_height(chain, reply) ==
    IF ~reply.ok
    THEN Err("status query failed")
    ELSE LET response == Unwrap(reply.value)
         IN  IF response.catching_up
             THEN Err("node not caught up")
             ELSE IF ~ParsesAsChainId(response.network)
                  THEN Err("invalid chain id")
                  ELSE Ok(Height(ChainIdVersion(response.network),
                                 response.latest_block_height))

\* get_latest_height: the status reply; then get_header asks for the block.
StatusReceived(t) ==
    /\ At(t, "rpc_status")
    /\ \E reply \in Replies("rpc_status") :
          LET latest_height == get_latest_height(Unwrap(task[t].chain), reply)
          IN  IF latest_height.ok
              THEN Await(t, "rpc_block",
                         [task[t] EXCEPT !.latest_height = latest_height.value])
              ELSE Return(t, latest_height)
    /\ UNCHANGED <<chain_service, query_handler, workers, calls, trace>>

\* ics23_vector_commitments::proof_specs(): the IAVL and the tendermint
\* proof specifications, in that order.
proof_specs == <<"iavl", "tendermint">>

NewTendermintClientState(chain, unbonding_period, latest_height) ==
    [ chain_id |-> chain.id,
      trust_level |-> Some([ numerator |-> chain.trust_level.numer,
                             denominator |-> chain.trust_level.denom ]),
      trusting_period |-> Some(chain.trusting_period),
      unbonding_period |-> Some(unbonding_period),
      max_clock_drift |-> Some(chain.max_clock_drift),
      frozen_height |-> Some(Height(0, 0)),
      latest_height |-> Some(latest_height),
      proof_specs |-> proof_specs,
      upgrade_path |-> <<"upgrade", "upgradedIBCState">>,
      allow_update_after_expiry |-> FALSE,
      allow_update_after_misbehaviour |-> FALSE ]

\* get_header: the block reply; the client and consensus states are returned.
BlockReceived(t) ==
    /\ At(t, "rpc_block")
    /\ \E reply \in Replies("rpc_block") :
          IF reply.ok
          THEN Return(t, Ok([ client_state |->
                                NewTendermintClientState(Unwrap(task[t].chain),
                                                         Unwrap(task[t].unbonding_period),
                                                         Unwrap(task[t].latest_height)),
                              consensus_state |->
                                [from_block_header |-> Unwrap(reply.value).header] ]))
          ELSE Return(t, Err("block query failed"))
    /\ UNCHANGED <<chain_service, query_handler, workers, calls, trace>>

----------------------------------------------------------------------------
\* The steps of the factory calls, and the specifications.

Step(t) ==
    \/ GetChain(t)
    \/ CreateSoloMachineClientMessage(t)
    \/ ConnectionOpenInitMessage(t)
    \/ AckGetClientState(t)
    \/ AckProofTry(t)
    \/ AckIncrementAfterTry(t)
    \/ AckProofClient(t)
    \/ AckIncrementAfterClient(t)
    \/ AckProofConsensus(t)
    \/ AckIncrementAfterConsensus(t)
    \/ ConnectionOpenAckMessage(t)
    \/ ChannelOpenInitMessage(t)
    \/ ChannelProofTry(t)
    \/ ChannelIncrement(t)
    \/ ChannelOpenAckMessage(t)
    \/ BuildTxBody(t)
    \/ AuthConnected(t)
    \/ AccountReceived(t)
    \/ AssembleTxRaw(t)
    \/ StakingConnected(t)
    \/ StakingParamsReceived(t)
    \/ StatusReceived(t)
    \/ BlockReceived(t)

Next ==
    \E t \in Tasks :
        \/ Issue(t)
        \/ Poll(t)
        \/ Cancel(t)
        \/ Step(t)

\* Calls overlap at their suspension points, on one executor thread.
Spec == Init /\ [][Next]_vars

\* Calls are polled in parallel by the threads of a multi-threaded executor.
SpecParallel == InitParallel /\ [][Next]_vars

----------------------------------------------------------------------------
\* Reading the outcome of a call and the history.

Finished(t) == task[t].pc = "done"
Succeeded(t, op) == Finished(t) /\ task[t].op = op /\ Unwrap(task[t].result).ok
Failed(t, op) == Finished(t) /\ task[t].op = op /\ ~Unwrap(task[t].result).ok
ValueOf(t) == Unwrap(Unwrap(task[t].result).value)
ErrorOf(t) == Unwrap(task[t].result).error
StartOf(t) == Unwrap(task[t].start_sequence)

\* The payload message of a TxRaw, decoded from its body bytes.
MessageOf(tx) == proto_decode(proto_decode(tx.body_bytes).messages[1].value)

Shape(event) == <<event.kind, event.data_type, event.sequence>>
EventsOfCall(c) ==
    LET own == SelectSeq(trace, LAMBDA e : e.call = c)
    IN  [i \in DOMAIN own |-> Shape(own[i])]
OwnIncrements(t) ==
    Cardinality({i \in DOMAIN trace :
                    trace[i].kind = "increment" /\ trace[i].call = task[t].call})
\* Increments other calls made since call t read its chain.
OtherIncrements(t) ==
    Cardinality({i \in DOMAIN trace :
                    /\ i > task[t].start_mark
                    /\ trace[i].kind = "increment"
                    /\ trace[i].call # task[t].call})

ProofShape(proof) == <<SignBytesOf(proof).data_type, SignBytesOf(proof).sequence>>

----------------------------------------------------------------------------
\* C1: a connection_open_ack call that read sequence s and succeeded generated
\* exactly three proofs, connection then client then consensus, signing s, s+1
\* and s+2, each followed by its increment_sequence before the next proof; the
\* message carries these proofs as proof_try, proof_client, proof_consensus.
C1_AckProofsSignConsecutiveSequences ==
    \A t \in Tasks :
        Succeeded(t, "connection_open_ack") =>
            LET s == StartOf(t)
                m == MessageOf(ValueOf(t))
            IN  /\ EventsOfCall(task[t].call) =
                     << <<"proof", "ConnectionState", s>>,
                        <<"increment", "", s + 1>>,
                        <<"proof", "ClientState", s + 1>>,
                        <<"increment", "", s + 2>>,
                        <<"proof", "ConsensusState", s + 2>>,
                        <<"increment", "", s + 3>> >>
                /\ ProofShape(m.proof_try) = <<"ConnectionState", s>>
                /\ ProofShape(m.proof_client) = <<"ClientState", s + 1>>
                /\ ProofShape(m.proof_consensus) = <<"ConsensusState", s + 2>>

\* A connection_open_ack succeeded after an earlier call had moved the sequence.
C1_Witness ==
    \E t \in Tasks :
        Succeeded(t, "connection_open_ack") /\ StartOf(t) > InitialSequence

\* C2: a connection_open_ack call that read sequence s and succeeded carries
\* proof_height {0, s+3}, and the stored sequence is s+3 once the call is over
\* (plus the increments that other calls made since it read s, none when calls
\* do not overlap).
C2_AckProofHeightIsFinalSequence ==
    \A t \in Tasks :
        Succeeded(t, "connection_open_ack") =>
            /\ MessageOf(ValueOf(t)).proof_height = Some(Height(0, StartOf(t) + 3))
            /\ Stored.sequence = StartOf(t) + 3 + OtherIncrements(t)

\* A connection_open_ack succeeded with no increment of another call since.
C2_Witness ==
    \E t \in Tasks :
        /\ Succeeded(t, "connection_open_ack")
        /\ OtherIncrements(t) = 0
        /\ Stored.sequence = StartOf(t) + 3

\* C3: a channel_open_ack call that read sequence s and succeeded generated one
\* proof, of data type ChannelState and signing s; its proof_height is
\* {0, s+1} and the stored sequence is s+1 once the call is over (plus the
\* increments that other calls made since it read s).
C3_ChannelAckOneProof ==
    \A t \in Tasks :
        Succeeded(t, "channel_open_ack") =>
            LET s == StartOf(t)
                m == MessageOf(ValueOf(t))
            IN  /\ EventsOfCall(task[t].call) =
                     << <<"proof", "ChannelState", s>>, <<"increment", "", s + 1>> >>
                /\ ProofShape(m.proof_try) = <<"ChannelState", s>>
                /\ m.proof_height = Some(Height(0, s + 1))
                /\ Stored.sequence = s + 1 + OtherIncrements(t)

\* A channel_open_ack succeeded with no increment of another call since.
C3_Witness ==
    \E t \in Tasks :
        /\ Succeeded(t, "channel_open_ack")
        /\ OtherIncrements(t) = 0
        /\ Stored.sequence = StartOf(t) + 1

\* Proofs and increments in the history.
ProofEvents == {i \in DOMAIN trace : trace[i].kind = "proof"}
IncrementEvents == {i \in DOMAIN trace : trace[i].kind = "increment"}

\* Call u was issued before call t and is still in flight: the two overlap.
Overlap(t, u) == InFlight(u) /\ task[u].call < task[t].call

\* C4: proof-generating calls issued concurrently against one chain id never
\* generate two proofs against the same sequence value.
C4_ConcurrentCallsNeverShareASequence ==
    \A t, u \in Tasks :
        Overlap(t, u) =>
            \A i, j \in ProofEvents :
                /\ trace[i].call = task[t].call
                /\ trace[j].call = task[u].call
                /\ trace[i].chain_id = trace[j].chain_id
                => trace[i].sequence # trace[j].sequence

\* C5: the stored sequence changes only by +1, and whenever no call is in the
\* middle of its synchronous steps the number of increments equals the number
\* of proofs generated.
C5_OneIncrementPerProof ==
    [][ /\ Unwrap(chain_service[RegisteredChainId])'.sequence \in
              {Stored.sequence, Stored.sequence + 1}
        /\ running' = {} => Cardinality(IncrementEvents)' = Cardinality(ProofEvents)'
      ]_vars

\* C6: a proof signs the sequence that the chain service stores at the moment
\* the proof is generated.
C6_ProofSignsStoredSequence ==
    [][ (Len(trace') = Len(trace) + 1 /\ trace'[Len(trace')].kind = "proof")
            => trace'[Len(trace')].sequence = Stored.sequence ]_vars

\* The client proof of a connection_open_ack has been generated: the second
\* proof of a call, signed after an increment.
C6_Witness ==
    \E i \in ProofEvents :
        trace[i].data_type = "ClientState" /\ trace[i].sequence > InitialSequence + 1

\* What a returned value must be, per factory.
PayloadUrl(op) ==
    CASE op = "create_solo_machine_client" -> "MsgCreateClient"
      [] op = "connection_open_init" -> "MsgConnectionOpenInit"
      [] op = "connection_open_ack" -> "MsgConnectionOpenAck"
      [] op = "channel_open_init" -> "MsgChannelOpenInit"
      [] op = "channel_open_ack" -> "MsgChannelOpenAck"
      [] OTHER -> "none"

IsTxRaw(v) == DOMAIN v = {"body_bytes", "auth_info_bytes", "signatures"}

\* A TxRaw with nothing missing: one payload message of the factory, the auth
\* info and the signed SignDoc of an account the lookup returned.
CompleteTxRaw(v, op) ==
    /\ IsTxRaw(v)
    /\ Len(v.signatures) = 1
    /\ LET body == proto_decode(v.body_bytes)
           auth == proto_decode(v.auth_info_bytes)
           doc == proto_decode(v.signatures[1].signed)
       IN  /\ Len(body.messages) = 1
           /\ body.messages[1].type_url = PayloadUrl(op)
           /\ doc.body_bytes = v.body_bytes
           /\ doc.auth_info_bytes = v.auth_info_bytes
           /\ \E a \in BaseAccounts :
                 /\ doc.account_number = a.account_number
                 /\ auth.signer_infos[1].sequence = a.sequence

IsClientPair(v) == DOMAIN v = {"client_state", "consensus_state"}

\* The inputs of call t name a chain and IBC objects that exist.
InputsExist(t) ==
    /\ task[t].chain_id = RegisteredChainId
    /\ task[t].op = "connection_open_ack" =>
          /\ task[t].tendermint_client_id = ClientFull
          /\ task[t].tendermint_connection_id = ConnectionPresent
    /\ task[t].op = "channel_open_ack" => task[t].tendermint_channel_id = ChannelPresent

\* C7 as stated: every finished factory call holds a TxRaw or an error.
C7_EveryCallEndsInTxRawOrError ==
    \A t \in Tasks :
        Finished(t) =>
            LET r == Unwrap(task[t].result)
            IN  IF r.ok THEN IsTxRaw(Unwrap(r.value)) ELSE IsNone(r.value)

OutcomeOf(t) ==
    LET r == Unwrap(task[t].result)
    IN  IF r.ok
        THEN /\ r.error = ""
             /\ InputsExist(t)
             /\ IF task[t].op = "create_tendermint_client"
                THEN IsClientPair(Unwrap(r.value))
                ELSE CompleteTxRaw(Unwrap(r.value), task[t].op)
        ELSE /\ r.error # ""
             /\ IsNone(r.value)

\* C7, amended: a finished call holds either its complete value (a TxRaw; the
\* client and consensus state pair for create_tendermint_client) or an error
\* with no value; a call whose inputs name a missing chain or IBC object holds
\* an error; the step that fails changes nothing else, and a finished call
\* takes no further step.
C7_CallEndsInValueOrError ==
    [][ \A t \in Tasks :
           /\ Finished(t)' => OutcomeOf(t)'
           /\ (~Finished(t) /\ Finished(t)' /\ ~Unwrap(task[t].result)'.ok) =>
                 (chain_service' = chain_service /\ trace' = trace)
           /\ Finished(t) =>
                 /\ task'[t] = task[t] \/ task'[t].call # task[t].call
                 /\ trace' # trace => trace'[Len(trace')].call # task[t].call
      ]_vars

\* A connection_open_ack failed in the account lookup, after its three proofs.
C7_Witness ==
    \E t \in Tasks :
        /\ Failed(t, "connection_open_ack")
        /\ ErrorOf(t) = "unable to find account"
        /\ OwnIncrements(t) = 3

\* Errors returned by the final transaction assembly (the payload message and
\* build), after every proof and increment of the call.
AssemblyErrors ==
    { "encoding or key failure", "unable to build transaction body",
      "unable to connect to grpc query client", "account query failed",
      "unable to find account", "account does not decode",
      "unable to sign transaction" }

AckSteps(s) ==
    << <<"proof", "ConnectionState", s>>, <<"increment", "", s + 1>>,
       <<"proof", "ClientState", s + 1>>, <<"increment", "", s + 2>>,
       <<"proof", "ConsensusState", s + 2>>, <<"increment", "", s + 3>> >>

ChannelSteps(s) == << <<"proof", "ChannelState", s>>, <<"increment", "", s + 1>> >>

IsPrefix(a, b) == Len(a) <= Len(b) /\ a = SubSeq(b, 1, Len(a))

\* C8: a failed connection_open_ack that read sequence s and completed k of its
\* proof-then-increment steps leaves the stored sequence at s+k (plus the
\* increments other calls made since), with k = 3 when the failure is in the
\* transaction assembly; a channel_open_ack that fails in the transaction
\* assembly leaves it at s+1.
C8_IncrementsAreNotRolledBack ==
    \A t \in Tasks :
        /\ (Failed(t, "connection_open_ack") /\ IsSome(task[t].start_sequence)) =>
              LET k == OwnIncrements(t)
              IN  /\ k \in 0..3
                  /\ IsPrefix(EventsOfCall(task[t].call), AckSteps(StartOf(t)))
                  /\ ErrorOf(t) \in AssemblyErrors => k = 3
                  /\ Stored.sequence = StartOf(t) + k + OtherIncrements(t)
        /\ (Failed(t, "channel_open_ack") /\ IsSome(task[t].start_sequence)) =>
              LET k == OwnIncrements(t)
              IN  /\ k \in 0..1
                  /\ IsPrefix(EventsOfCall(task[t].call), ChannelSteps(StartOf(t)))
                  /\ ErrorOf(t) \in AssemblyErrors => k = 1
                  /\ Stored.sequence = StartOf(t) + k + OtherIncrements(t)

\* A connection_open_ack failed in the account lookup and left the sequence
\* three above the one it read.
C8_Witness ==
    \E t \in Tasks :
        /\ Failed(t, "connection_open_ack")
        /\ ErrorOf(t) = "account query failed"
        /\ OtherIncrements(t) = 0
        /\ Stored.sequence = StartOf(t) + 3

NoProofOps == { "create_solo_machine_client", "create_tendermint_client",
                "connection_open_init", "channel_open_init" }

BuildPcs == {"build_tx_body", "auth_connect", "auth_account", "assemble"}

\* C9: no step of a factory that needs no proofs, and no step of build, changes
\* the chain service or generates a proof; when such a factory call is over,
\* the stored sequence is the one it read (plus the increments other calls
\* made since), whether it succeeded or failed.
C9_NoProofFactoriesLeaveSequence ==
    [][ \A t \in Tasks :
           /\ ( /\ task'[t] # task[t]
                /\ InFlight(t)
                /\ task[t].op \in NoProofOps \/ task[t].pc \in BuildPcs )
              => (chain_service' = chain_service /\ trace' = trace)
           /\ ( /\ Finished(t)'
                /\ task'[t].op \in NoProofOps
                /\ IsSome(task'[t].start_sequence) )
              => /\ OwnIncrements(t)' = 0
                 /\ Stored.sequence' = StartOf(t)' + OtherIncrements(t)'
      ]_vars

\* A create_solo_machine_client call succeeded and a connection_open_init call
\* failed, and the stored sequence is still the one each of them read.
C9_Witness ==
    /\ \E t \in Tasks :
          Succeeded(t, "create_solo_machine_client") /\ Stored.sequence = StartOf(t)
    /\ \E t \in Tasks :
          /\ Failed(t, "connection_open_init")
          /\ IsSome(task[t].start_sequence)
          /\ Stored.sequence = StartOf(t)

\* The chain snapshots in the state: the stored chain and the calls' locals.
Snapshots ==
    {Stored} \cup {Unwrap(task[t].chain) : t \in {u \in Tasks : IsSome(task[u].chain)}}

\* The proofs in the state: the calls' locals and the returned messages.
LocalProofs(t) ==
    {Unwrap(p) : p \in {q \in {task[t].proof_try, task[t].proof_client,
                               task[t].proof_consensus} : IsSome(q)}}
ReturnedProofs(t) ==
    IF Succeeded(t, "connection_open_ack")
    THEN LET m == MessageOf(ValueOf(t))
         IN  {m.proof_try, m.proof_client, m.proof_consensus}
    ELSE IF Succeeded(t, "channel_open_ack")
         THEN {MessageOf(ValueOf(t)).proof_try}
         ELSE {}
Proofs == UNION {LocalProofs(t) \cup ReturnedProofs(t) : t \in Tasks}

\* C10: every proof embeds the chain's consensus_timestamp and diversifier in
\* its SignBytes and the consensus_timestamp in its TimestampedSignatureData,
\* and the two fields are the same in every chain snapshot of every state.
C10_ProofsEmbedFixedTimestampAndDiversifier ==
    /\ \A chain \in Snapshots :
          /\ chain.consensus_timestamp = InitialChain.consensus_timestamp
          /\ chain.diversifier = InitialChain.diversifier
    /\ \A proof \in Proofs :
          /\ SignBytesOf(proof).timestamp = Stored.consensus_timestamp
          /\ SignBytesOf(proof).diversifier = Stored.diversifier
          /\ TimestampedOf(proof).timestamp = Stored.consensus_timestamp

\* A call holds its consensus proof, signed with the snapshot that the second
\* increment_sequence returned.
C10_Witness ==
    \E t \in Tasks :
        /\ IsSome(task[t].proof_consensus)
        /\ SignBytesOf(Unwrap(task[t].proof_consensus)).sequence = StartOf(t) + 2

----------------------------------------------------------------------------
\* The replies to the status request in which the node is still catching up.
CatchingUpReplies ==
    {r \in Replies("rpc_status") : r.ok /\ Unwrap(r.value).catching_up}

\* C11: when the status reply reports catching_up, get_latest_height gives the
\* "not caught up" error; the step in which create_tendermint_client returns
\* that error returns no value and changes neither the chain service, the
\* query handler nor the history, the call has incremented nothing, and the
\* block is requested only with a height taken from a reply of a node that is
\* not catching up.
C11_CatchingUpFailsWithoutMutation ==
    [][ \A t \in Tasks :
           (At(t, "rpc_status") /\ task'[t] # task[t]) =>
               /\ \A r \in CatchingUpReplies :
                     get_latest_height(Unwrap(task[t].chain), r) = Err("node not caught up")
               /\ (Finished(t)' /\ ErrorOf(t)' = "node not caught up") =>
                     /\ IsNone(Unwrap(task'[t].result).value)
                     /\ chain_service' = chain_service
                     /\ query_handler' = query_handler
                     /\ trace' = trace
                     /\ OwnIncrements(t)' = 0
               /\ task'[t].pc = "rpc_block" =>
                     \E r \in Replies("rpc_status") \ CatchingUpReplies :
                         task'[t].latest_height =
                             get_latest_height(Unwrap(task[t].chain), r).value
               /\ task'[t].pc \in {"rpc_block", "done"}
      ]_vars

\* A create_tendermint_client call returned the "not caught up" error and the
\* stored chain is the one registered.
C11_Witness ==
    \E t \in Tasks :
        /\ Failed(t, "create_tendermint_client")
        /\ ErrorOf(t) = "node not caught up"
        /\ Stored = InitialChain

----------------------------------------------------------------------------
\* C12: in every state the query handler holds the IBC objects it held at the
\* start, no chain has been registered or removed, and the stored chain is the
\* registered one with its sequence advanced by the number of increments done:
\* every other field is unchanged, whichever calls succeeded or failed.
C12_OnlyTheSequenceChanges ==
    /\ query_handler = InitialQueryHandler
    /\ chain_service[UnknownChainId] = None
    /\ IsSome(chain_service[RegisteredChainId])
    /\ Stored = [InitialChain EXCEPT
                    !.sequence = InitialSequence + Cardinality(IncrementEvents)]

\* A connection_open_ack failed at its consensus proof, after two increments,
\* and another call went through its own increments as well.
C12_Witness ==
    \E t \in Tasks :
        /\ Failed(t, "connection_open_ack")
        /\ OwnIncrements(t) = 2
        /\ Cardinality(IncrementEvents) > 2

----------------------------------------------------------------------------
\* The factories run from scratch on a chain service whose stored sequence is
\* s: the payload message, and the TxRaw for a given account lookup response.

SnapshotAt(s) == [Stored EXCEPT !.sequence = s]

ReplayMessage(op, s, client, connection, channel) ==
    CASE op = "create_solo_machine_client" ->
            MsgCreateSoloMachineClient(SnapshotAt(s), TheMnemonic)
      [] op = "connection_open_init" ->
            MsgConnectionOpenInit(SnapshotAt(s), TheMnemonic, SoloMachineClientId, client)
      [] op = "connection_open_ack" ->
            MsgConnectionOpenAck(
                SnapshotAt(s + 3), TheMnemonic,
                Unwrap(get_client_state(query_handler, client)),
                Unwrap(get_connection_proof(SnapshotAt(s), query_handler,
                                            TheMnemonic, connection).value),
                Unwrap(get_client_proof(SnapshotAt(s + 1), query_handler,
                                        TheMnemonic, client).value),
                Unwrap(get_consensus_proof(SnapshotAt(s + 2), query_handler,
                                           TheMnemonic, client).value),
                SoloMachineConnectionId, connection)
      [] op = "channel_open_init" ->
            MsgChannelOpenInit(SnapshotAt(s), TheMnemonic, SoloMachineConnectionId)
      [] OTHER ->
            MsgChannelOpenAck(
                SnapshotAt(s + 1), TheMnemonic,
                Unwrap(get_channel_proof(SnapshotAt(s), query_handler, TheMnemonic,
                                         Stored.port_id, channel).value),
                SoloMachineChannelId, channel)

ReplayTxRaw(op, s, client, connection, channel, account) ==
    TxRaw(SnapshotAt(s), TheMnemonic,
          proto_encode(build_tx_body(<<ReplayMessage(op, s, client, connection, channel)>>,
                                     TheMemo)),
          account)

\* The account lookup response a TxRaw was built with.
AccountOf(tx) ==
    [ account_number |-> proto_decode(tx.signatures[1].signed).account_number,
      sequence |-> proto_decode(tx.auth_info_bytes).signer_infos[1].sequence ]

SameCall(a, b) ==
    /\ a.op = b.op
    /\ a.chain_id = b.chain_id
    /\ a.tendermint_client_id = b.tendermint_client_id
    /\ a.tendermint_connection_id = b.tendermint_connection_id
    /\ a.tendermint_channel_id = b.tendermint_channel_id
    /\ a.start_sequence = b.start_sequence

\* C13: the TxRaw a call returns is the one obtained by running the same
\* factory from scratch with the same arguments on the same stored sequence,
\* query handler contents and account lookup response; so it equals the TxRaw
\* of every earlier identical call that read the same sequence and got the
\* same account response.
C13_IdenticalCallsGiveIdenticalTxRaw ==
    [][ \A t \in Tasks :
           (At(t, "assemble") /\ Finished(t)' /\ Unwrap(task'[t].result).ok) =>
               /\ ValueOf(t)' =
                     ReplayTxRaw(task[t].op, StartOf(t),
                                 task[t].tendermint_client_id,
                                 task[t].tendermint_connection_id,
                                 task[t].tendermint_channel_id,
                                 Unwrap(task[t].account))
               /\ \A u \in Tasks \ {t} :
                     ( /\ Finished(u)
                       /\ Unwrap(task[u].result).ok
                       /\ SameCall(task[u], task[t])
                       /\ AccountOf(ValueOf(u)) = Unwrap(task[t].account) )
                     => ValueOf(t)' = ValueOf(u)
      ]_vars

\* create_solo_machine_client ran twice on the chain as registered, with the
\* same account response, and returned the same TxRaw both times.
C13_Witness ==
    /\ Succeeded("t1", "create_solo_machine_client")
    /\ Succeeded("t2", "create_solo_machine_client")
    /\ StartOf("t1") = InitialSequence
    /\ StartOf("t2") = InitialSequence
    /\ ValueOf("t1") = ValueOf("t2")

----------------------------------------------------------------------------
\* C14: a TxRaw that build returns carries one signature, made with the
\* mnemonic's signing key over the encoded SignDoc of exactly the body_bytes
\* and auth_info_bytes of that TxRaw, the chain's id and the account number
\* that this call's account lookup returned; its body_bytes are the bytes
\* encoded before the lookup.
C14_SignatureCoversEmittedBytes ==
    [][ \A t \in Tasks :
           (At(t, "assemble") /\ Finished(t)' /\ Unwrap(task'[t].result).ok) =>
               LET tx == ValueOf(t)'
               IN  /\ IsTxRaw(tx)
                   /\ Len(tx.signatures) = 1
                   /\ tx.signatures[1] =
                         ecdsa_sign(to_signing_key(TheMnemonic),
                                    proto_encode(
                                        SignDoc(tx.body_bytes, tx.auth_info_bytes,
                                                Unwrap(task[t].chain).id,
                                                Unwrap(task[t].account).account_number)))
                   /\ tx.body_bytes = Unwrap(task[t].tx_body_bytes)
      ]_vars

\* Two calls returned their TxRaw after account lookups that gave different
\* account numbers.
C14_Witness ==
    \E t, u \in Tasks :
        /\ Finished(t) /\ Unwrap(task[t].result).ok /\ IsTxRaw(ValueOf(t))
        /\ Finished(u) /\ Unwrap(task[u].result).ok /\ IsTxRaw(ValueOf(u))
        /\ AccountOf(ValueOf(t)).account_number # AccountOf(ValueOf(u)).account_number

----------------------------------------------------------------------------
\* C15: the MsgCreateClient of a successful create_solo_machine_client carries
\* a solo-machine client state with the sequence the call read from the chain
\* service, frozen_sequence 0 and allow_update_after_proposal true, and a
\* consensus state with the chain's diversifier and consensus_timestamp; the
\* consensus state inside the client state is the one sent as the message's
\* consensus_state.
C15_SoloMachineClientStateFields ==
    \A t \in Tasks :
        Succeeded(t, "create_solo_machine_client") =>
            LET m == MessageOf(ValueOf(t))
                any_client_state == Unwrap(m.client_state)
                any_consensus_state == Unwrap(m.consensus_state)
                client_state == proto_decode(any_client_state.value)
                consensus_state == proto_decode(any_consensus_state.value)
            IN  /\ m.type_url = "MsgCreateClient"
                /\ any_client_state.type_url = "solomachine.ClientState"
                /\ any_consensus_state.type_url = "solomachine.ConsensusState"
                /\ client_state.sequence = StartOf(t)
                /\ client_state.frozen_sequence = 0
                /\ client_state.allow_update_after_proposal = TRUE
                /\ client_state.consensus_state = Some(consensus_state)
                /\ consensus_state.diversifier = Stored.diversifier
                /\ consensus_state.timestamp = Stored.consensus_timestamp

\* A create_solo_machine_client succeeded after an earlier call had advanced
\* the stored sequence.
C15_Witness ==
    \E t \in Tasks :
        /\ Succeeded(t, "create_solo_machine_client")
        /\ StartOf(t) > InitialSequence

----------------------------------------------------------------------------
\* A call that was dropped after it had read its chain.
Cancelled(t, op) ==
    task[t].pc = "cancelled" /\ task[t].op = op /\ IsSome(task[t].start_sequence)

\* C16: a dropped call holds no result; a dropped connection_open_ack that read
\* sequence s has done its three increments and a dropped channel_open_ack its
\* one, and the stored sequence stays s+3, respectively s+1 (plus the
\* increments other calls made since): nothing is rolled back.
C16_CancelledCallLeavesSequenceAdvanced ==
    \A t \in Tasks :
        /\ task[t].pc = "cancelled" => IsNone(task[t].result)
        /\ Cancelled(t, "connection_open_ack") =>
              /\ EventsOfCall(task[t].call) = AckSteps(StartOf(t))
              /\ Stored.sequence = StartOf(t) + 3 + OtherIncrements(t)
        /\ Cancelled(t, "channel_open_ack") =>
              /\ EventsOfCall(task[t].call) = ChannelSteps(StartOf(t))
              /\ Stored.sequence = StartOf(t) + 1 + OtherIncrements(t)

\* A connection_open_ack and a channel_open_ack were both dropped while they
\* waited in build, and the stored sequence is four above the registered one.
C16_Witness ==
    \E t, u \in Tasks :
        /\ Cancelled(t, "connection_open_ack")
        /\ Cancelled(u, "channel_open_ack")
        /\ Stored.sequence = InitialSequence + 4

----------------------------------------------------------------------------
\* A call that returned after it had read its chain.
Returned(t, op) == Finished(t) /\ task[t].op = op /\ IsSome(task[t].start_sequence)

\* The not-found error of a connection_open_ack: the client state is looked
\* up before the connection.
AckNotFoundError(t) ==
    IF task[t].tendermint_client_id = ClientAbsent
    THEN "client not found"
    ELSE "connection not found"

\* C17: a connection_open_ack whose tendermint client state is absent, or
\* whose connection is absent, fails before any increment_sequence: it has
\* generated no proof and done no increment, and the stored sequence is the
\* one it read (plus the increments other calls made since).  Its error is the
\* not-found error of the absent object, the client's when both are absent,
\* whenever the lookups answered; a lookup that itself fails returns its own
\* error at the same place.  Likewise a channel_open_ack whose channel is
\* absent.
C17_AbsentObjectFailsBeforeAnyIncrement ==
    \A t \in Tasks :
        /\ ( /\ Returned(t, "connection_open_ack")
             /\ \/ task[t].tendermint_client_id = ClientAbsent
                \/ task[t].tendermint_connection_id = ConnectionAbsent )
           => /\ ~Unwrap(task[t].result).ok
              /\ IsNone(Unwrap(task[t].result).value)
              /\ ErrorOf(t) \in {AckNotFoundError(t), QueryHandlerFailure}
              /\ EventsOfCall(task[t].call) = <<>>
              /\ Stored.sequence = StartOf(t) + OtherIncrements(t)
        /\ ( /\ Returned(t, "channel_open_ack")
             /\ task[t].tendermint_channel_id = ChannelAbsent )
           => /\ ~Unwrap(task[t].result).ok
              /\ IsNone(Unwrap(task[t].result).value)
              /\ ErrorOf(t) \in {"channel not found", QueryHandlerFailure}
              /\ EventsOfCall(task[t].call) = <<>>
              /\ Stored.sequence = StartOf(t) + OtherIncrements(t)

\* A connection_open_ack failed on its absent connection and a
\* channel_open_ack on its absent channel, and the stored sequence is still
\* the registered one.
C17_Witness ==
    \E t, u \in Tasks :
        /\ Failed(t, "connection_open_ack")
        /\ ErrorOf(t) = "connection not found"
        /\ Failed(u, "channel_open_ack")
        /\ ErrorOf(u) = "channel not found"
        /\ Stored.sequence = InitialSequence

----------------------------------------------------------------------------
\* The error get_consensus_proof returns for a client state that exists.
ConsensusLookupError(client) ==
    IF client = ClientNoHeight
    THEN "client state does not contain latest height"
    ELSE "consensus state not found"

\* C18: a connection_open_ack that read sequence s, whose connection exists and
\* whose client state exists without latest_height, or without the consensus
\* state at that height, never returns a TxRaw and never does its third
\* increment.  The missing height or consensus state is reported by the third
\* proof only: a call that returns that error has generated the connection
\* proof with s and the client proof with s+1 and done two increments, and the
\* stored sequence is then s+2 (plus the increments other calls made since);
\* and a call that got as far as the third proof returns that error, or the
\* error of a lookup that itself failed there.
C18_MissingConsensusFailsAtThirdProof ==
    \A t \in Tasks :
        ( /\ Returned(t, "connection_open_ack")
          /\ task[t].tendermint_client_id \in {ClientNoHeight, ClientNoConsensus}
          /\ task[t].tendermint_connection_id = ConnectionPresent )
        => LET s == StartOf(t)
               lookup_error == ConsensusLookupError(task[t].tendermint_client_id)
           IN  /\ ~Unwrap(task[t].result).ok
               /\ IsNone(Unwrap(task[t].result).value)
               /\ IsPrefix(EventsOfCall(task[t].call), SubSeq(AckSteps(s), 1, 4))
               /\ OwnIncrements(t) = 2 =>
                     ErrorOf(t) \in {lookup_error, QueryHandlerFailure}
               /\ ErrorOf(t) = lookup_error =>
                     /\ OwnIncrements(t) = 2
                     /\ EventsOfCall(task[t].call) = SubSeq(AckSteps(s), 1, 4)
                     /\ Stored.sequence = s + 2 + OtherIncrements(t)

\* One connection_open_ack failed on a client state without latest_height and
\* another on a missing consensus state, each two increments after it started.
C18_Witness ==
    \E t, u \in Tasks :
        /\ Failed(t, "connection_open_ack")
        /\ ErrorOf(t) = "client state does not contain latest height"
        /\ Failed(u, "connection_open_ack")
        /\ ErrorOf(u) = "consensus state not found"
        /\ Stored.sequence = InitialSequence + 4

----------------------------------------------------------------------------
\* The positions of a proof-generating call between its read of the chain and
\* its last increment, and the positions at which a call is suspended.
ProofSectionPcs ==
    { "ack_client_state", "ack_proof_try", "ack_increment_1", "ack_proof_client",
      "ack_increment_2", "ack_proof_consensus", "ack_increment_3",
      "channel_proof_try", "channel_increment" }

SuspensionPcs ==
    { "auth_connect", "auth_account",
      "staking_connect", "staking_params", "rpc_status", "rpc_block" }

ProofOps == {"connection_open_ack", "channel_open_ack"}

StepsOf(op, s) == IF op = "connection_open_ack" THEN AckSteps(s) ELSE ChannelSteps(s)

\* The proofs and increments of call t are the history entries that directly
\* follow the entries present when it read its chain.
Uninterrupted(t) ==
    LET n == Len(EventsOfCall(task[t].call))
    IN  \A i \in 1..n : trace[task[t].start_mark + i].call = task[t].call

\* C19: with one executor thread, a call between its read of the chain and its
\* last increment holds the thread, so no other call is being polled and its
\* proofs and increments are consecutive in the history; a proof-generating
\* call that is suspended, or was dropped after reading its chain, has
\* generated all its proofs and done all its increments: a dropped
\* connection_open_ack has done three increments, never one or two.
C19_NoSuspensionInsideProofSection ==
    \A t \in Tasks :
        /\ task[t].pc \in ProofSectionPcs => running = {t}
        /\ (InFlight(t) /\ t \notin running) =>
              task[t].pc \in SuspensionPcs \cup {"get_chain"}
        /\ (task[t].op \in ProofOps /\ IsSome(task[t].start_sequence)) =>
              /\ Uninterrupted(t)
              /\ (task[t].pc \in SuspensionPcs \/ task[t].pc = "cancelled") =>
                    /\ EventsOfCall(task[t].call) = StepsOf(task[t].op, StartOf(t))
                    /\ OwnIncrements(t) = IF task[t].op = "connection_open_ack"
                                          THEN 3 ELSE 1

\* A connection_open_ack is about to generate its consensus proof while another
\* call is suspended in its account lookup.
C19_Witness ==
    \E t, u \in Tasks :
        /\ task[t].pc = "ack_proof_consensus"
        /\ t \in running
        /\ task[u].pc = "auth_account"
        /\ u \notin running

----------------------------------------------------------------------------
\* Calls made one after another: a call is issued only when no other call is
\* in flight.
IssueAlone(t) ==
    /\ \A u \in Tasks : ~InFlight(u)
    /\ Issue(t)

NextSequential ==
    \E t \in Tasks :
        \/ IssueAlone(t)
        \/ Poll(t)
        \/ Cancel(t)
        \/ Step(t)

SpecSequential == Init /\ [][NextSequential]_vars

\* The sequences signed by the proofs a returned TxRaw carries.
ReturnedSequences(t) == {SignBytesOf(p).sequence : p \in ReturnedProofs(t)}

\* Sequences never signed twice, over the whole history.
NoSequenceSignedTwice ==
    \A i, j \in ProofEvents :
        (i < j /\ trace[i].chain_id = trace[j].chain_id)
            => trace[i].sequence # trace[j].sequence

\* The proofs of a TxRaw returned by a later call sign higher sequences than
\* those of a TxRaw returned by an earlier call.
ReturnedSequencesIncrease ==
    \A t, u \in Tasks :
        (Finished(t) /\ Finished(u) /\ task[t].call < task[u].call) =>
            \A a \in ReturnedSequences(t), b \in ReturnedSequences(u) : a < b

\* C20: when calls are made one after another, no sequence value is signed by
\* more than one generated proof, and the proofs of successively returned
\* TxRaws sign strictly increasing sequences.
C20_SequentialCallsNeverReuseASequence ==
    NoSequenceSignedTwice /\ ReturnedSequencesIncrease

----------------------------------------------------------------------------
\* The history entries of call t, and whether the last one is a proof: the
\* increment_sequence that follows that proof has not succeeded.
OwnEvents(t) == SelectSeq(trace, LAMBDA e : e.call = task[t].call)

EndsWithProof(t) ==
    LET own == OwnEvents(t)
    IN  Len(own) > 0 /\ own[Len(own)].kind = "proof"

\* The proof was generated by call t and directly followed by an increment of
\* call t that stored the sequence after the one the proof signs.
FollowedByIncrement(t, proof) ==
    LET own == OwnEvents(t)
    IN  \E i \in 1..(Len(own) - 1) :
            /\ own[i].kind = "proof"
            /\ own[i].data_type = SignBytesOf(proof).data_type
            /\ own[i].sequence = SignBytesOf(proof).sequence
            /\ own[i + 1].kind = "increment"
            /\ own[i + 1].sequence = own[i].sequence + 1

\* C21: a call whose increment_sequence failed after its proof was generated
\* returns the chain service's error and no value, and only such a call
\* returns that error after reading its chain; every proof in a returned
\* TxRaw was followed by a successful increment of the same call, and the
\* proof_height of a returned TxRaw is the sequence of the snapshot that the
\* call's last increment returned.
C21_FailedIncrementReturnsError ==
    \A t \in Tasks :
        /\ (Finished(t) /\ IsSome(task[t].start_sequence)) =>
              ( EndsWithProof(t) <=>
                    (~Unwrap(task[t].result).ok /\ ErrorOf(t) = "chain service failure") )
        /\ (Finished(t) /\ EndsWithProof(t)) => IsNone(Unwrap(task[t].result).value)
        /\ (Succeeded(t, "connection_open_ack") \/ Succeeded(t, "channel_open_ack")) =>
              LET own == OwnEvents(t)
              IN  /\ \A proof \in ReturnedProofs(t) : FollowedByIncrement(t, proof)
                  /\ Len(own) > 0
                  /\ own[Len(own)].kind = "increment"
                  /\ MessageOf(ValueOf(t)).proof_height =
                        Some(Height(0, own[Len(own)].sequence))

\* The second increment_sequence of a connection_open_ack failed, after the
\* client proof had been generated, and the call returned the error.
C21_Witness ==
    \E t \in Tasks :
        /\ Failed(t, "connection_open_ack")
        /\ ErrorOf(t) = "chain service failure"
        /\ EndsWithProof(t)
        /\ OwnIncrements(t) = 1

----------------------------------------------------------------------------
\* C22: one height throughout a connection_open_ack call.

\* The data signed by a consensus proof: its path and the consensus state.
ConsensusProofData(proof) == proto_decode(SignBytesOf(proof).data)

\* The height that closes a consensus-state path.
PathHeight(path) == path[Len(path)]

\* C22: for every successful connection_open_ack call, the outer message's
\* consensus_height is the latest_height of the tendermint client state the
\* query handler holds for the call's client, that client state is the one the
\* message carries, and the same height is the one the consensus state of the
\* call's consensus proof was looked up at and the one that closes the
\* consensus-state path the proof signs.  The query handler's stored client
\* state never changes while a call runs (no step of a factory call writes the
\* query handler), so the three reads of one call see the same client state.
C22_ConsensusHeightIsClientLatestHeight ==
    \A t \in Tasks :
        Succeeded(t, "connection_open_ack") =>
            LET m == MessageOf(ValueOf(t))
                client == task[t].tendermint_client_id
                read == get_client_state(query_handler, client)
                data == ConsensusProofData(m.proof_consensus)
            IN  /\ IsSome(read)
                /\ m.client_state = Some(to_any("tendermint.ClientState", Unwrap(read)))
                /\ IsSome(m.consensus_height)
                /\ m.consensus_height = Unwrap(read).latest_height
                /\ SignBytesOf(m.proof_consensus).data_type = "ConsensusState"
                /\ data.path = <<"ibc", "clients", client, "consensusStates",
                                 Unwrap(m.consensus_height)>>
                /\ LET looked_up == get_consensus_state(query_handler, client,
                                                        Unwrap(m.consensus_height))
                   IN  /\ IsSome(looked_up)
                       /\ data.consensus_state =
                            Some(to_any("tendermint.ConsensusState", Unwrap(looked_up)))

C22_Witness ==
    \E t \in Tasks :
        /\ Succeeded(t, "connection_open_ack")
        /\ task[t].tendermint_client_id = ClientFull
        /\ MessageOf(ValueOf(t)).consensus_height = Some(Height(1, 5))
        /\ PathHeight(ConsensusProofData(MessageOf(ValueOf(t)).proof_consensus).path)
             = Height(1, 5)
        /\ MessageOf(ValueOf(t)).proof_height # MessageOf(ValueOf(t)).consensus_height

====
